---- MODULE Spec2Model ----
(***************************************************************************)
(* A model of package faketerm (src/faketerm.go).                          *)
(*                                                                         *)
(* A FakeTerm holds an io.Writer w guarded by the mutex wL and a           *)
(* bufio.Scanner s (default split function ScanLines, default buffer       *)
(* limits) guarded by the mutex rL.  The model keeps the scanner's buffer, *)
(* its sticky error and the two mutexes, runs the methods of FakeTerm as   *)
(* small steps of concurrent threads, and keeps histories of what the      *)
(* calls returned and of what reached the sink.                            *)
(*                                                                         *)
(* Bytes are the strings "a", "CR" (carriage return) and "LF" (newline);   *)
(* a line is a sequence of bytes.  Errors are strings: "nil", "EOF"        *)
(* (io.EOF), "ErrIO" (an error of the underlying reader), "ErrTooLong"     *)
(* (bufio.ErrTooLong), "ErrNoProgress" (io.ErrNoProgress) and "ErrW" (an   *)
(* error of the underlying writer).                                        *)
(***************************************************************************)
EXTENDS Integers, Sequences, FiniteSets, TLC

VARIABLES
    input,     \* the bytes the underlying reader delivers before it ends
    term,      \* how the reader ends: "EOF", "ErrIO", or "OPEN" (never ends)
    pos,       \* number of bytes of input the reader has delivered so far
    closed,    \* the reader has reported its end (io.EOF or its error)
    buf,       \* Scanner: s.buf[s.start:s.end], the unconsumed buffered bytes
    start,     \* Scanner: s.start
    buflen,    \* Scanner: len(s.buf)
    serr,      \* Scanner: s.err, the sticky error
    rL,        \* FakeTerm.rL: 0 when unlocked, else the thread holding it
    wL,        \* FakeTerm.wL: 0 when unlocked, else the thread holding it
    pc,        \* pc[t]: where thread t is
    op,        \* op[t]: the method thread t is in ("none" between calls)
    prompt,    \* prompt[t]: the prompt argument of a ReadPassword call
    wbuf,      \* wbuf[t]: the buf argument of a Write call
    loop,      \* loop[t]: Scan's count of consecutive empty reads
    ret,       \* ret[t]: what Scan/ReadLine produced for thread t
    had,       \* had[t]: bytes not yet consumed when t's read took the guard
    wid,       \* wid[t]: index in sinkCalls of the sink call thread t made
    wret,      \* wret[t]: what Write is about to return
    sink,      \* the bytes that reached the writer, each with its sink call
    sinkCalls, \* history: every invocation of w.Write
    reads,     \* history: results of the completed ReadLine/ReadPassword calls
    writes,    \* history: results of the completed Write calls
    last,      \* history: the last completed no-op call
    budget     \* number of ReadLine/ReadPassword/Write calls still to start

vars == <<input, term, pos, closed, buf, start, buflen, serr, rL, wL, pc, op,
          prompt, wbuf, loop, ret, had, wid, wret, sink, sinkCalls, reads,
          writes, last, budget>>

srcVars  == <<input, term, pos, closed>>
scanVars == <<buf, start, buflen, serr>>
sinkVars == <<sink, sinkCalls>>
wrVars   == <<wbuf, wid, wret>>

----------------------------------------------------------------------------
(* Bounds of the model. *)

\* Longest input of the single-reader specification SpecSeq.
MaxLen == 5
\* Longest input of the concurrent specification Spec, but for TwoLines.
MaxLenC == 1
\* bufio.MaxScanTokenSize (64 * 1024 in bufio), scaled down.
MaxScanTokenSize == 3
\* bufio's startBufSize (4096 in bufio), scaled down.
StartBufSize == 2
\* bufio's maxConsecutiveEmptyReads (100 in bufio), scaled down.
MaxConsecutiveEmptyReads == 1

\* The threads that read and write, and every thread that calls the no-ops.
Threads == {1, 2}
Callers == Threads \cup {3}
CR == "CR"
LF == "LF"
Bytes == {"a", CR, LF}
Prompts == {"", "pw"}
Bufs == {<<"x">>, <<"x", "y">>}
Sizes == {<<80, 24>>, <<-1, 0>>}
TwoLines == <<"a", LF, LF>>

Min(x, y) == IF x < y THEN x ELSE y

SeqsUpTo(S, n) == UNION {[1..k -> S] : k \in 0..n}

NoRet == [line |-> <<>>, err |-> "nil", ok |-> FALSE]
NoWRet == [n |-> 0, err |-> "nil"]
NoLast == [op |-> "none", size |-> <<0, 0>>, err |-> "none"]

----------------------------------------------------------------------------
(* bufio.ScanLines, the split function of a Scanner made by NewScanner. *)

\* bytes.IndexByte(data, '\n'), 1-based; 0 when there is none.
IndexLF(data) ==
    IF \E i \in 1..Len(data) : data[i] = LF
    THEN CHOOSE i \in 1..Len(data) :
            data[i] = LF /\ \A j \in 1..(i - 1) : data[j] # LF
    ELSE 0

\* dropCR: drop one terminal \r.
DropCR(data) ==
    IF Len(data) > 0 /\ data[Len(data)] = CR
    THEN SubSeq(data, 1, Len(data) - 1)
    ELSE data

\* Mutant: a split function that yields only newline-terminated lines.
ScanLines_TerminatedOnly(data, atEOF) ==
    IF IndexLF(data) > 0
    THEN [advance |-> IndexLF(data), hasToken |-> TRUE,
          token |-> DropCR(SubSeq(data, 1, IndexLF(data) - 1))]
    ELSE [advance |-> 0, hasToken |-> FALSE, token |-> <<>>]

ScanLines(data, atEOF) ==
    IF atEOF /\ Len(data) = 0
    THEN [advance |-> 0, hasToken |-> FALSE, token |-> <<>>]
    ELSE IF IndexLF(data) > 0
    THEN [advance |-> IndexLF(data), hasToken |-> TRUE,
          token |-> DropCR(SubSeq(data, 1, IndexLF(data) - 1))]
    ELSE IF atEOF
    THEN [advance |-> Len(data), hasToken |-> TRUE, token |-> DropCR(data)]
    ELSE [advance |-> 0, hasToken |-> FALSE, token |-> <<>>]

\* Scanner.setErr: the first error other than io.EOF sticks.
SetErr(old, new) == IF old = "nil" \/ old = "EOF" THEN new ELSE old

\* Scanner.Err: io.EOF is reported as no error.
ScanErr(e) == IF e = "EOF" THEN "nil" ELSE e

\* strings.TrimRight(s, "\r\n")
RECURSIVE TrimRight(_)
TrimRight(s) ==
    IF Len(s) > 0 /\ s[Len(s)] \in {CR, LF}
    THEN TrimRight(SubSeq(s, 1, Len(s) - 1))
    ELSE s

\* Mutant: the token is returned as the scanner gave it.
LineResult_NoTrim(text) == [line |-> text, err |-> "nil", ok |-> TRUE]

\* ReadLine's result when Scan returned true.
LineResult(text) == [line |-> TrimRight(text), err |-> "nil", ok |-> TRUE]

\* Mutant: f.s.Err() is returned as it is, nil at the end of the stream.
FailResult_RawErr(e) == [line |-> <<>>, err |-> ScanErr(e), ok |-> FALSE]

\* Mutant: every failed scan is reported as the end of the stream.
FailResult_AlwaysEOF(e) == [line |-> <<>>, err |-> "EOF", ok |-> FALSE]

\* ReadLine's result when Scan returned false.
FailResult(e) ==
    [line |-> <<>>, err |-> IF ScanErr(e) = "nil" THEN "EOF" ELSE ScanErr(e),
     ok |-> FALSE]

\* Mutant: the prompt is echoed into the line.
ReadPasswordResult_Echo(p, r) == [r EXCEPT !.line = <<p>> \o r.line]

\* ReadPassword's result, given the prompt and what f.ReadLine() returned.
ReadPasswordResult(p, r) == r

----------------------------------------------------------------------------
(* Initial states: New(r, w) over a reader that will deliver `input`. *)

InitWith(inputs, calls) ==
    /\ input \in inputs
    /\ term \in {"EOF", "ErrIO", "OPEN"}
    /\ pos = 0
    /\ closed = FALSE
    /\ buf = <<>>
    /\ start = 0
    /\ buflen = 0
    /\ serr = "nil"
    /\ rL = 0
    /\ wL = 0
    /\ pc = [t \in Threads |-> "idle"]
    /\ op = [t \in Threads |-> "none"]
    /\ prompt = [t \in Threads |-> ""]
    /\ wbuf = [t \in Threads |-> <<>>]
    /\ loop = [t \in Threads |-> 0]
    /\ ret = [t \in Threads |-> NoRet]
    /\ had = [t \in Threads |-> 0]
    /\ wid = [t \in Threads |-> 0]
    /\ wret = [t \in Threads |-> NoWRet]
    /\ sink = <<>>
    /\ sinkCalls = <<>>
    /\ reads = <<>>
    /\ writes = <<>>
    /\ last = NoLast
    /\ budget = calls

\* Spec: short inputs and one input of two lines; as many calls as callers.
Init == InitWith(SeqsUpTo(Bytes, MaxLenC) \cup {TwoLines}, Cardinality(Callers))

\* SpecSeq: every input up to MaxLen bytes, and calls enough to read all its
\* lines and then two more.
InitSeq == InitWith(SeqsUpTo(Bytes, MaxLen), MaxLen + 2)

----------------------------------------------------------------------------
(* ReadLine and ReadPassword. *)

\* A thread calls f.ReadLine().
ReadLine(t) ==
    /\ pc[t] = "idle"
    /\ budget > 0
    /\ budget' = budget - 1
    /\ pc' = [pc EXCEPT ![t] = "rl_lock"]
    /\ op' = [op EXCEPT ![t] = "ReadLine"]
    /\ UNCHANGED <<srcVars, scanVars, sinkVars, wrVars, rL, wL, prompt, loop,
                   ret, had, reads, writes, last>>

\* A thread calls f.ReadPassword(p), which calls f.ReadLine().
ReadPassword(t, p) ==
    /\ pc[t] = "idle"
    /\ budget > 0
    /\ budget' = budget - 1
    /\ pc' = [pc EXCEPT ![t] = "rl_lock"]
    /\ op' = [op EXCEPT ![t] = "ReadPassword"]
    /\ prompt' = [prompt EXCEPT ![t] = p]
    /\ UNCHANGED <<srcVars, scanVars, sinkVars, wrVars, rL, wL, loop, ret,
                   had, reads, writes, last>>

\* f.rL.Lock()
RL_Lock(t) ==
    /\ pc[t] = "rl_lock"
    /\ rL = 0
    /\ rL' = t
    /\ had' = [had EXCEPT ![t] = Len(buf) + (Len(input) - pos)]
    /\ pc' = [pc EXCEPT ![t] = "scan"]
    /\ UNCHANGED <<srcVars, scanVars, sinkVars, wrVars, wL, op, prompt, loop,
                   ret, reads, writes, last, budget>>

\* Mutant: a scanner that reports the reader's error before the lines it
\* still holds.
ScanTop_ErrorFirst(t) ==
    /\ pc[t] = "scan"
    /\ LET sp      == ScanLines(buf, serr # "nil")
           try     == Len(buf) > 0 \/ serr # "nil"
           shifted == start > 0
                        /\ (start + Len(buf) = buflen \/ start > buflen \div 2)
           st1     == IF shifted THEN 0 ELSE start
           full    == st1 + Len(buf) = buflen
       IN  IF try /\ sp.hasToken /\ serr \in {"nil", "EOF"}
           THEN /\ buf' = SubSeq(buf, sp.advance + 1, Len(buf))
                /\ start' = start + sp.advance
                /\ ret' = [ret EXCEPT ![t] = LineResult(sp.token)]
                /\ pc' = [pc EXCEPT ![t] = "rl_ret"]
                /\ UNCHANGED <<buflen, serr, loop>>
           ELSE IF serr # "nil"
           THEN /\ buf' = <<>>
                /\ start' = 0
                /\ ret' = [ret EXCEPT ![t] = FailResult(serr)]
                /\ pc' = [pc EXCEPT ![t] = "rl_ret"]
                /\ UNCHANGED <<buflen, serr, loop>>
           ELSE IF full /\ buflen >= MaxScanTokenSize
           THEN /\ serr' = SetErr(serr, "ErrTooLong")
                /\ start' = st1
                /\ ret' = [ret EXCEPT ![t] = FailResult(serr')]
                /\ pc' = [pc EXCEPT ![t] = "rl_ret"]
                /\ UNCHANGED <<buf, buflen, loop>>
           ELSE /\ buflen' = IF full
                             THEN Min(IF buflen = 0 THEN StartBufSize
                                      ELSE buflen * 2, MaxScanTokenSize)
                             ELSE buflen
                /\ start' = IF full THEN 0 ELSE st1
                /\ loop' = [loop EXCEPT ![t] = 0]
                /\ pc' = [pc EXCEPT ![t] = "read"]
                /\ UNCHANGED <<buf, serr, ret>>
    /\ UNCHANGED <<srcVars, sinkVars, wrVars, rL, wL, op, prompt, had, reads,
                   writes, last, budget>>

\* Mutant: a scanner whose buffer grows without a limit.
ScanTop_NoLimit(t) ==
    /\ pc[t] = "scan"
    /\ LET sp      == ScanLines(buf, serr # "nil")
           try     == Len(buf) > 0 \/ serr # "nil"
           shifted == start > 0
                        /\ (start + Len(buf) = buflen \/ start > buflen \div 2)
           st1     == IF shifted THEN 0 ELSE start
           full    == st1 + Len(buf) = buflen
       IN  IF try /\ sp.hasToken
           THEN /\ buf' = SubSeq(buf, sp.advance + 1, Len(buf))
                /\ start' = start + sp.advance
                /\ ret' = [ret EXCEPT ![t] = LineResult(sp.token)]
                /\ pc' = [pc EXCEPT ![t] = "rl_ret"]
                /\ UNCHANGED <<buflen, serr, loop>>
           ELSE IF serr # "nil"
           THEN /\ buf' = <<>>
                /\ start' = 0
                /\ ret' = [ret EXCEPT ![t] = FailResult(serr)]
                /\ pc' = [pc EXCEPT ![t] = "rl_ret"]
                /\ UNCHANGED <<buflen, serr, loop>>
           ELSE IF FALSE
           THEN /\ serr' = SetErr(serr, "ErrTooLong")
                /\ start' = st1
                /\ ret' = [ret EXCEPT ![t] = FailResult(serr')]
                /\ pc' = [pc EXCEPT ![t] = "rl_ret"]
                /\ UNCHANGED <<buf, buflen, loop>>
           ELSE /\ buflen' = IF full
                             THEN (IF buflen = 0 THEN StartBufSize
                                   ELSE buflen * 2)
                             ELSE buflen
                /\ start' = IF full THEN 0 ELSE st1
                /\ loop' = [loop EXCEPT ![t] = 0]
                /\ pc' = [pc EXCEPT ![t] = "read"]
                /\ UNCHANGED <<buf, serr, ret>>
    /\ UNCHANGED <<srcVars, sinkVars, wrVars, rL, wL, op, prompt, had, reads,
                   writes, last, budget>>

\* f.s.Scan(), one turn of its loop up to the read of the underlying reader:
\* a token is split off the buffered bytes, or the sticky error ends the scan,
\* or the buffer is full at its largest size, or room is made for a read.
ScanTop(t) ==
    /\ pc[t] = "scan"
    /\ LET sp      == ScanLines(buf, serr # "nil")
           try     == Len(buf) > 0 \/ serr # "nil"
           shifted == start > 0
                        /\ (start + Len(buf) = buflen \/ start > buflen \div 2)
           st1     == IF shifted THEN 0 ELSE start
           full    == st1 + Len(buf) = buflen
       IN  IF try /\ sp.hasToken
           THEN /\ buf' = SubSeq(buf, sp.advance + 1, Len(buf))
                /\ start' = start + sp.advance
                /\ ret' = [ret EXCEPT ![t] = LineResult(sp.token)]
                /\ pc' = [pc EXCEPT ![t] = "rl_ret"]
                /\ UNCHANGED <<buflen, serr, loop>>
           ELSE IF serr # "nil"
           THEN /\ buf' = <<>>
                /\ start' = 0
                /\ ret' = [ret EXCEPT ![t] = FailResult(serr)]
                /\ pc' = [pc EXCEPT ![t] = "rl_ret"]
                /\ UNCHANGED <<buflen, serr, loop>>
           ELSE IF full /\ buflen >= MaxScanTokenSize
           THEN /\ serr' = SetErr(serr, "ErrTooLong")
                /\ start' = st1
                /\ ret' = [ret EXCEPT ![t] = FailResult(serr')]
                /\ pc' = [pc EXCEPT ![t] = "rl_ret"]
                /\ UNCHANGED <<buf, buflen, loop>>
           ELSE /\ buflen' = IF full
                             THEN Min(IF buflen = 0 THEN StartBufSize
                                      ELSE buflen * 2, MaxScanTokenSize)
                             ELSE buflen
                /\ start' = IF full THEN 0 ELSE st1
                /\ loop' = [loop EXCEPT ![t] = 0]
                /\ pc' = [pc EXCEPT ![t] = "read"]
                /\ UNCHANGED <<buf, serr, ret>>
    /\ UNCHANGED <<srcVars, sinkVars, wrVars, rL, wL, op, prompt, had, reads,
                   writes, last, budget>>

\* f.s.Scan(), the call s.r.Read(s.buf[s.end:len(s.buf)]): the reader returns
\* n bytes and possibly its end; a read of no bytes and no error is counted,
\* and too many in a row end the scan with io.ErrNoProgress.
ScanRead(t) ==
    /\ pc[t] = "read"
    /\ \E n \in 0..Min(buflen - (start + Len(buf)), Len(input) - pos),
          e \in {"nil", term} :
        /\ e # "nil" => (e # "OPEN" /\ pos + n = Len(input))
        /\ IF n = 0 /\ e = "nil"
           THEN /\ loop' = [loop EXCEPT ![t] = loop[t] + 1]
                /\ IF loop'[t] > MaxConsecutiveEmptyReads
                   THEN /\ serr' = SetErr(serr, "ErrNoProgress")
                        /\ pc' = [pc EXCEPT ![t] = "scan"]
                   ELSE UNCHANGED <<serr, pc>>
                /\ UNCHANGED <<buf, pos, closed>>
           ELSE /\ buf' = buf \o SubSeq(input, pos + 1, pos + n)
                /\ pos' = pos + n
                /\ closed' = (e # "nil")
                /\ serr' = IF e # "nil" THEN SetErr(serr, e) ELSE serr
                /\ pc' = [pc EXCEPT ![t] = "scan"]
                /\ UNCHANGED loop
    /\ UNCHANGED <<input, term, start, buflen, sinkVars, wrVars, rL, wL, op,
                   prompt, ret, had, reads, writes, last, budget>>

\* What the caller of the read call of thread t receives.
ReadResult(t) ==
    IF op[t] = "ReadPassword"
    THEN ReadPasswordResult(prompt[t], ret[t])
    ELSE ret[t]

\* Mutant: no defer, the read guard is released only when a line is returned.
RL_Return_KeepsGuardOnError(t) ==
    /\ pc[t] = "rl_ret"
    /\ rL' = IF rL = t /\ ret[t].ok THEN 0 ELSE rL
    /\ reads' = Append(reads,
                  [line |-> ReadResult(t).line, err |-> ReadResult(t).err,
                   ok |-> ret[t].ok, serr |-> serr, had |-> had[t]])
    /\ pc' = [pc EXCEPT ![t] = "idle"]
    /\ op' = [op EXCEPT ![t] = "none"]
    /\ prompt' = [prompt EXCEPT ![t] = ""]
    /\ ret' = [ret EXCEPT ![t] = NoRet]
    /\ had' = [had EXCEPT ![t] = 0]
    /\ loop' = [loop EXCEPT ![t] = 0]
    /\ UNCHANGED <<srcVars, scanVars, sinkVars, wrVars, wL, writes, last,
                   budget>>

\* ReadLine returns: the deferred f.rL.Unlock() runs and the result goes to
\* the caller, through ReadPassword when that is what was called.
RL_Return(t) ==
    /\ pc[t] = "rl_ret"
    /\ rL' = IF rL = t THEN 0 ELSE rL
    /\ reads' = Append(reads,
                  [line |-> ReadResult(t).line, err |-> ReadResult(t).err,
                   ok |-> ret[t].ok, serr |-> serr, had |-> had[t]])
    /\ pc' = [pc EXCEPT ![t] = "idle"]
    /\ op' = [op EXCEPT ![t] = "none"]
    /\ prompt' = [prompt EXCEPT ![t] = ""]
    /\ ret' = [ret EXCEPT ![t] = NoRet]
    /\ had' = [had EXCEPT ![t] = 0]
    /\ loop' = [loop EXCEPT ![t] = 0]
    /\ UNCHANGED <<srcVars, scanVars, sinkVars, wrVars, wL, writes, last,
                   budget>>

----------------------------------------------------------------------------
(* Write. *)

\* A thread calls f.Write(b).
Write(t, b) ==
    /\ pc[t] = "idle"
    /\ budget > 0
    /\ budget' = budget - 1
    /\ pc' = [pc EXCEPT ![t] = "w_lock"]
    /\ op' = [op EXCEPT ![t] = "Write"]
    /\ wbuf' = [wbuf EXCEPT ![t] = b]
    /\ UNCHANGED <<srcVars, scanVars, sinkVars, rL, wL, prompt, loop, ret,
                   had, wid, wret, reads, writes, last>>

\* The bytes Write hands to the writer.
SinkArg(b) == b

\* Mutant: Write does not wait for the write guard.
W_Lock_NoGuard(t) ==
    /\ pc[t] = "w_lock"
    /\ wL' = t
    /\ sinkCalls' = Append(sinkCalls,
                      [buf |-> SinkArg(wbuf[t]), n |-> 0, err |-> "nil",
                       done |-> FALSE])
    /\ wid' = [wid EXCEPT ![t] = Len(sinkCalls) + 1]
    /\ pc' = [pc EXCEPT ![t] = "w_sink"]
    /\ UNCHANGED <<srcVars, scanVars, sink, rL, op, prompt, wbuf, loop, ret,
                   had, wret, reads, writes, last, budget>>

\* Mutant: one guard for both directions, Write takes the read guard.
W_Lock_ReadGuard(t) ==
    /\ pc[t] = "w_lock"
    /\ rL = 0
    /\ wL = 0
    /\ wL' = t
    /\ sinkCalls' = Append(sinkCalls,
                      [buf |-> SinkArg(wbuf[t]), n |-> 0, err |-> "nil",
                       done |-> FALSE])
    /\ wid' = [wid EXCEPT ![t] = Len(sinkCalls) + 1]
    /\ pc' = [pc EXCEPT ![t] = "w_sink"]
    /\ UNCHANGED <<srcVars, scanVars, sink, rL, op, prompt, wbuf, loop, ret,
                   had, wret, reads, writes, last, budget>>

\* f.wL.Lock(), and f.w.Write(buf) is entered.
W_Lock(t) ==
    /\ pc[t] = "w_lock"
    /\ wL = 0
    /\ wL' = t
    /\ sinkCalls' = Append(sinkCalls,
                      [buf |-> SinkArg(wbuf[t]), n |-> 0, err |-> "nil",
                       done |-> FALSE])
    /\ wid' = [wid EXCEPT ![t] = Len(sinkCalls) + 1]
    /\ pc' = [pc EXCEPT ![t] = "w_sink"]
    /\ UNCHANGED <<srcVars, scanVars, sink, rL, op, prompt, wbuf, loop, ret,
                   had, wret, reads, writes, last, budget>>

\* The writer takes the next byte of the buffer it was handed.
SinkByte(t) ==
    /\ pc[t] = "w_sink"
    /\ LET c == sinkCalls[wid[t]]
       IN  /\ c.n < Len(c.buf)
           /\ sink' = Append(sink, [call |-> wid[t], byte |-> c.buf[c.n + 1]])
           /\ sinkCalls' = [sinkCalls EXCEPT ![wid[t]].n = c.n + 1]
    /\ UNCHANGED <<srcVars, scanVars, wrVars, rL, wL, pc, op, prompt, loop,
                   ret, had, reads, writes, last, budget>>

\* Mutant: the writer's error is swallowed.
WriteResult_NoErr(r) == [r EXCEPT !.err = "nil"]

\* What Write returns, given what f.w.Write(buf) returned.
WriteResult(r) == r

\* The writer returns the number of bytes it took and an error or none.
SinkReturn(t, e) ==
    /\ pc[t] = "w_sink"
    /\ sinkCalls' = [sinkCalls EXCEPT ![wid[t]].err = e, ![wid[t]].done = TRUE]
    /\ wret' = [wret EXCEPT ![t] =
                  WriteResult([n |-> sinkCalls[wid[t]].n, err |-> e])]
    /\ pc' = [pc EXCEPT ![t] = "w_ret"]
    /\ UNCHANGED <<srcVars, scanVars, sink, rL, wL, op, prompt, wbuf, loop,
                   ret, had, wid, reads, writes, last, budget>>

\* Mutant: no defer, the write guard is released only after a good write.
W_Return_KeepsGuardOnError(t) ==
    /\ pc[t] = "w_ret"
    /\ wL' = IF wL = t /\ wret[t].err = "nil" THEN 0 ELSE wL
    /\ writes' = Append(writes,
                   [buf |-> wbuf[t], n |-> wret[t].n, err |-> wret[t].err,
                    call |-> wid[t]])
    /\ pc' = [pc EXCEPT ![t] = "idle"]
    /\ op' = [op EXCEPT ![t] = "none"]
    /\ wbuf' = [wbuf EXCEPT ![t] = <<>>]
    /\ wid' = [wid EXCEPT ![t] = 0]
    /\ wret' = [wret EXCEPT ![t] = NoWRet]
    /\ UNCHANGED <<srcVars, scanVars, sinkVars, rL, prompt, loop, ret, had,
                   reads, last, budget>>

\* Write returns: the deferred f.wL.Unlock() runs.
W_Return(t) ==
    /\ pc[t] = "w_ret"
    /\ wL' = IF wL = t THEN 0 ELSE wL
    /\ writes' = Append(writes,
                   [buf |-> wbuf[t], n |-> wret[t].n, err |-> wret[t].err,
                    call |-> wid[t]])
    /\ pc' = [pc EXCEPT ![t] = "idle"]
    /\ op' = [op EXCEPT ![t] = "none"]
    /\ wbuf' = [wbuf EXCEPT ![t] = <<>>]
    /\ wid' = [wid EXCEPT ![t] = 0]
    /\ wret' = [wret EXCEPT ![t] = NoWRet]
    /\ UNCHANGED <<srcVars, scanVars, sinkVars, rL, prompt, loop, ret, had,
                   reads, last, budget>>

----------------------------------------------------------------------------
(* The no-ops.  Their bodies are empty: they take no guard and touch no    *)
(* field, so any thread that is not inside another call can run one in one *)
(* step.  `last` records the call for the caller's side.                   *)

\* f.SetBracketedPasteMode(on)
SetBracketedPasteMode(t, on) ==
    /\ t \in Threads => pc[t] = "idle"
    /\ budget > 0
    /\ budget' = budget - 1
    /\ last' = [NoLast EXCEPT !.op = "SetBracketedPasteMode"]
    /\ UNCHANGED <<srcVars, scanVars, sinkVars, wrVars, rL, wL, pc, op,
                   prompt, loop, ret, had, reads, writes>>

\* Mutant: the prompt is written to the writer, as a terminal would.
SetPrompt_Shown(t, p) ==
    /\ t \in Threads => pc[t] = "idle"
    /\ budget > 0
    /\ budget' = budget - 1
    /\ last' = [NoLast EXCEPT !.op = "SetPrompt"]
    /\ sink' = Append(sink, [call |-> 0, byte |-> p])
    /\ UNCHANGED <<srcVars, scanVars, sinkCalls, wrVars, rL, wL, pc, op,
                   prompt, loop, ret, had, reads, writes>>

\* f.SetPrompt(p)
SetPrompt(t, p) ==
    /\ t \in Threads => pc[t] = "idle"
    /\ budget > 0
    /\ budget' = budget - 1
    /\ last' = [NoLast EXCEPT !.op = "SetPrompt"]
    /\ UNCHANGED <<srcVars, scanVars, sinkVars, wrVars, rL, wL, pc, op,
                   prompt, loop, ret, had, reads, writes>>

\* Mutant: a size that is not positive is refused.
SetSizeResult_Checked(width, height) ==
    IF width <= 0 \/ height <= 0 THEN "ErrSize" ELSE "nil"

\* The error SetSize returns.
SetSizeResult(width, height) == "nil"

\* Mutant: SetSize waits for the write guard, as a terminal that redraws.
SetSize_TakesWriteGuard(t, width, height) ==
    /\ t \in Threads => pc[t] = "idle"
    /\ budget > 0
    /\ wL = 0
    /\ budget' = budget - 1
    /\ last' = [NoLast EXCEPT !.op = "SetSize", !.size = <<width, height>>,
                              !.err = SetSizeResult(width, height)]
    /\ UNCHANGED <<srcVars, scanVars, sinkVars, wrVars, rL, wL, pc, op,
                   prompt, loop, ret, had, reads, writes>>

\* f.SetSize(width, height)
SetSize(t, width, height) ==
    /\ t \in Threads => pc[t] = "idle"
    /\ budget > 0
    /\ budget' = budget - 1
    /\ last' = [NoLast EXCEPT !.op = "SetSize", !.size = <<width, height>>,
                              !.err = SetSizeResult(width, height)]
    /\ UNCHANGED <<srcVars, scanVars, sinkVars, wrVars, rL, wL, pc, op,
                   prompt, loop, ret, had, reads, writes>>

----------------------------------------------------------------------------
(* The specifications. *)

\* Threads call the methods of one FakeTerm concurrently.
Next ==
    \/ \E t \in Threads :
        \/ ReadLine(t)
        \/ \E p \in Prompts : ReadPassword(t, p)
        \/ RL_Lock(t)
        \/ ScanTop(t)
        \/ ScanRead(t)
        \/ RL_Return(t)
        \/ \E b \in Bufs : Write(t, b)
        \/ W_Lock(t)
        \/ SinkByte(t)
        \/ \E e \in {"nil", "ErrW"} : SinkReturn(t, e)
        \/ W_Return(t)
    \/ \E t \in Callers :
        \/ \E on \in BOOLEAN : SetBracketedPasteMode(t, on)
        \/ \E p \in Prompts : SetPrompt(t, p)
        \/ \E sz \in Sizes : SetSize(t, sz[1], sz[2])

Spec == Init /\ [][Next]_vars

\* One thread reads a stream to its end.
NextSeq ==
    \/ ReadLine(1)
    \/ \E p \in Prompts : ReadPassword(1, p)
    \/ RL_Lock(1)
    \/ ScanTop(1)
    \/ ScanRead(1)
    \/ RL_Return(1)

SpecSeq == InitSeq /\ [][NextSeq]_vars

\* The read calls of all threads, without the writes and the no-op methods.
NextReaders ==
    \E t \in Threads :
        \/ ReadLine(t)
        \/ \E p \in Prompts : ReadPassword(t, p)
        \/ RL_Lock(t)
        \/ ScanTop(t)
        \/ ScanRead(t)
        \/ RL_Return(t)

\* A read of the io.Reader that delivers something: bytes, the end of the
\* stream or its error.  A reader with nothing to deliver yet may keep the
\* caller waiting for ever; one with bytes or an end to deliver does not.
ScanProgress(t) == ScanRead(t) /\ (pos' # pos \/ closed' # closed)

\* Scheduling: a thread inside ReadLine that can take its next step takes
\* it; a thread waiting for the read guard gets it once it stays free.
FairReaders ==
    \A t \in Threads :
        /\ WF_vars(RL_Lock(t))
        /\ WF_vars(ScanTop(t))
        /\ WF_vars(ScanProgress(t))
        /\ WF_vars(RL_Return(t))

SpecFair == Init /\ [][NextReaders]_vars /\ FairReaders

----------------------------------------------------------------------------
(* What the claims speak of, stated from the input alone. *)

\* The input cut after each LF; bytes after the last LF are a last piece.
RECURSIVE SplitLines(_)
SplitLines(s) ==
    IF s = <<>> THEN <<>>
    ELSE IF IndexLF(s) > 0
    THEN <<SubSeq(s, 1, IndexLF(s) - 1)>>
            \o SplitLines(SubSeq(s, IndexLF(s) + 1, Len(s)))
    ELSE <<s>>

\* s without the CR and LF bytes at its end.
Stripped(s) ==
    LET k == CHOOSE k \in 0..Len(s) :
                /\ k > 0 => s[k] \notin {CR, LF}
                /\ \A j \in (k + 1)..Len(s) : s[j] \in {CR, LF}
    IN  SubSeq(s, 1, k)

NewlineTerminated(s) == s = <<>> \/ s[Len(s)] = LF

\* Every line, with its newline, fits the scanner's largest buffer.
LinesFit(s) ==
    \A i \in 1..Len(SplitLines(s)) : Len(SplitLines(s)[i]) < MaxScanTokenSize

\* The reader made too many empty reads in a row and the scanner gave up.
ReaderStalled == serr = "ErrNoProgress"

\* The first calls, as many as the input has lines, returned those lines.
LinesReturnedInOrder ==
    \A i \in 1..Min(Len(reads), Len(SplitLines(input))) :
        /\ reads[i].line = Stripped(SplitLines(input)[i])
        /\ reads[i].err = "nil"

----------------------------------------------------------------------------
(* C1 *)

\* C1, as claimed: for every input of N newline-terminated lines, the first N
\* ReadLine calls return those lines in order, each without its trailing CR
\* and LF bytes and each with a nil error.  (Stated for readers that do not
\* stall, which is the favourable case for the claim.)
C1_AllLinesReturned ==
    (NewlineTerminated(input) /\ ~ReaderStalled) => LinesReturnedInOrder

\* C1, amended: the same, for inputs whose lines each fit, newline included,
\* in the scanner's largest buffer (bufio.MaxScanTokenSize bytes), read from a
\* reader that does not stall.
C1_FittingLinesReturned ==
    (NewlineTerminated(input) /\ LinesFit(input) /\ ~ReaderStalled)
        => LinesReturnedInOrder

\* Two calls have returned the lines of "a\r\n\n": "a" and the empty line.
C1_Witness ==
    /\ input = <<"a", CR, LF, LF>>
    /\ Len(reads) = 2
    /\ reads[1].line = <<"a">> /\ reads[1].err = "nil"
    /\ reads[2].line = <<>> /\ reads[2].err = "nil"

----------------------------------------------------------------------------
(* C2 *)

\* C2: a read call that took the guard when every byte of the input had been
\* consumed, on a stream that ended cleanly (the scanner holds io.EOF),
\* returns the empty string and io.EOF: not a nil error, not another error.
C2_EOFAfterLastLine ==
    \A i \in 1..Len(reads) :
        (reads[i].serr = "EOF" /\ reads[i].had = 0)
            => (reads[i].line = <<>> /\ reads[i].err = "EOF")

\* A line was returned, and the call after it returned ("", io.EOF).
C2_Witness ==
    \E i \in 2..Len(reads) :
        /\ reads[i - 1].ok /\ reads[i - 1].err = "nil"
        /\ reads[i].had = 0 /\ reads[i].serr = "EOF"
        /\ reads[i].line = <<>> /\ reads[i].err = "EOF"

----------------------------------------------------------------------------
(* C3 *)

\* C3: once the reader has yielded its error, the scanner holds that error
\* and no other; every read call that fails then returns the empty string and
\* that error, not io.EOF; and a call that took the guard with nothing left to
\* consume fails so.
C3_StreamErrorReturned ==
    /\ (closed /\ term = "ErrIO") => serr = "ErrIO"
    /\ \A i \in 1..Len(reads) :
        reads[i].serr = "ErrIO" =>
            /\ reads[i].ok => reads[i].err = "nil"
            /\ ~reads[i].ok => (reads[i].line = <<>> /\ reads[i].err = "ErrIO")
            /\ reads[i].had = 0 => ~reads[i].ok

\* A read call returned ("", ErrIO) on a stream that failed after a line.
C3_Witness ==
    \E i \in 2..Len(reads) :
        /\ term = "ErrIO" /\ closed
        /\ reads[i - 1].ok
        /\ reads[i].line = <<>> /\ reads[i].err = "ErrIO"

----------------------------------------------------------------------------
(* C4 *)

InWrite == {t \in Threads : pc[t] \in {"w_sink", "w_ret"}}

\* C4: every completed Write call made one invocation of the writer, its
\* own, with the buffer it was given, and returned the byte count and the
\* error that invocation returned; the writer is invoked once for each Write
\* call, completed or past the guard, and no more.
C4_WriteForwards ==
    /\ \A i \in 1..Len(writes) :
        LET c == sinkCalls[writes[i].call]
        IN  /\ c.done
            /\ c.buf = writes[i].buf
            /\ c.n = writes[i].n
            /\ c.err = writes[i].err
    /\ \A i, j \in 1..Len(writes) : i # j => writes[i].call # writes[j].call
    /\ Len(sinkCalls) = Len(writes) + Cardinality(InWrite)

\* A short, failed write was returned as such, and a later one went through.
C4_Witness ==
    \E i, j \in 1..Len(writes) :
        /\ i < j
        /\ writes[i].err = "ErrW" /\ writes[i].n < Len(writes[i].buf)
        /\ writes[j].err = "nil" /\ writes[j].n = Len(writes[j].buf)
        /\ writes[j].n = 2

----------------------------------------------------------------------------
(* C5 *)

InRead == {t \in Threads : pc[t] \in {"scan", "read", "rl_ret"}}

\* The number of calls among the first i that returned a line.
RECURSIVE LinesUpTo(_)
LinesUpTo(i) ==
    IF i = 0 THEN 0 ELSE LinesUpTo(i - 1) + (IF reads[i].ok THEN 1 ELSE 0)

\* C5, as claimed: at most one call is inside the read guard, and every call
\* returns either a whole line of the input, the next one that no call has
\* returned yet, or an error with the empty string; no call returns a part of
\* a line.  (Stated for readers that do not stall.)
C5_WholeLinesOnly ==
    /\ Cardinality(InRead) <= 1
    /\ ~ReaderStalled =>
        \A i \in 1..Len(reads) :
            IF reads[i].ok
            THEN /\ reads[i].err = "nil"
                 /\ LinesUpTo(i) <= Len(SplitLines(input))
                 /\ reads[i].line = Stripped(SplitLines(input)[LinesUpTo(i)])
            ELSE reads[i].line = <<>> /\ reads[i].err # "nil"

----------------------------------------------------------------------------
(* C6 *)

\* C6: at most one invocation of the writer is in progress, and the bytes
\* one invocation wrote lie together in the writer's output.
C6_WritesNotInterleaved ==
    /\ Cardinality(InWrite) <= 1
    /\ \A i, j, k \in 1..Len(sink) :
        (i < j /\ j < k /\ sink[i].call = sink[k].call)
            => sink[j].call = sink[i].call

\* One Write is half way through its buffer while another waits for the
\* guard, after an earlier Write has written its two bytes.
C6_Witness ==
    /\ pc[1] = "w_sink" /\ sinkCalls[wid[1]].n = 1 /\ Len(wbuf[1]) = 2
    /\ pc[2] = "w_lock"
    /\ Len(sink) = 3
    /\ sink[1].call = sink[2].call /\ sink[2].call # sink[3].call

----------------------------------------------------------------------------
(* C7 *)

\* C7: a call waits only for the guard of its own direction.  A Write that
\* is not waiting behind another Write can take its next step, whatever the
\* read guard and the reader are doing; a read call that is not waiting
\* behind another read call, and not waiting for the stream, can take its
\* next step, whatever the write guard and the writer are doing.
C7_GuardsIndependent ==
    \A t \in Threads :
        /\ (pc[t] = "w_lock" /\ wL = 0) => ENABLED W_Lock(t)
        /\ pc[t] = "w_sink" => ENABLED SinkReturn(t, "nil")
        /\ pc[t] = "w_ret" => ENABLED W_Return(t)
        /\ (pc[t] = "rl_lock" /\ rL = 0) => ENABLED RL_Lock(t)
        /\ pc[t] = "scan" => ENABLED ScanTop(t)
        /\ pc[t] = "rl_ret" => ENABLED RL_Return(t)

\* Thread 1 holds the read guard and waits on a silent stream, having
\* already met an empty read; thread 2 holds the write guard, the writer has
\* taken its two bytes, and its Write is about to return.
C7_Witness ==
    /\ pc[1] = "read" /\ rL = 1 /\ loop[1] = 1
    /\ term = "OPEN" /\ pos = Len(input)
    /\ pc[2] = "w_ret" /\ wL = 2
    /\ wret[2] = [n |-> 2, err |-> "nil"]

----------------------------------------------------------------------------
(* C8 *)

\* A step of thread t.
StepOf(t) == pc'[t] # pc[t] \/ loop'[t] # loop[t]

\* C8: a ReadPassword call returns, whatever its prompt, the line and the
\* error that the ReadLine body produced on the stream state it met, and no
\* step of it changes what reached the writer.
C8_ReadPasswordIsReadLine ==
    [][\A t \in Threads :
        /\ (op[t] = "ReadPassword" /\ pc[t] = "rl_ret" /\ pc'[t] = "idle")
            => reads' = Append(reads,
                          [line |-> ret[t].line, err |-> ret[t].err,
                           ok |-> ret[t].ok, serr |-> serr, had |-> had[t]])
        /\ ((op[t] = "ReadPassword" \/ op'[t] = "ReadPassword") /\ StepOf(t))
            => UNCHANGED <<sink, sinkCalls, wL>>]_vars

\* A ReadPassword call with a prompt is about to return the line "a", and
\* nothing has reached the writer.
C8_Witness ==
    \E t \in Threads :
        /\ op[t] = "ReadPassword" /\ prompt[t] = "pw" /\ pc[t] = "rl_ret"
        /\ ret[t].ok /\ ret[t].line = <<"a">> /\ ret[t].err = "nil"
        /\ sink = <<>>

----------------------------------------------------------------------------
(* C9 *)

\* Everything but the record of the last no-op and the call budget.
termVars == <<srcVars, scanVars, sinkVars, wrVars, rL, wL, pc, op, prompt,
              loop, ret, had, reads, writes>>

\* C9: a call of SetBracketedPasteMode or SetPrompt, with any argument and
\* by any caller, leaves the writer's output, the stream and the scanner,
\* both guards and every call in progress as they were.
C9_SettersChangeNothing ==
    [][((\E t \in Callers, on \in BOOLEAN : SetBracketedPasteMode(t, on))
        \/ (\E t \in Callers, p \in Prompts : SetPrompt(t, p)))
            => UNCHANGED termVars]_vars

\* SetPrompt was the last no-op called; a read has returned a line and a
\* Write has written its bytes.
C9_Witness ==
    /\ last.op = "SetPrompt"
    /\ Len(reads) = 1 /\ reads[1].ok
    /\ Len(writes) = 1 /\ Len(sink) = 2

----------------------------------------------------------------------------
(* C10 *)

\* C10: SetSize returns no error, whatever the width and the height, and a
\* call of it leaves the instance, the stream and the writer as they were.
C10_SetSizeSucceeds ==
    /\ [](last.op = "SetSize" => last.err = "nil")
    /\ [][(\E t \in Callers, sz \in Sizes : SetSize(t, sz[1], sz[2]))
            => UNCHANGED termVars]_vars

\* SetSize(-1, 0) returned no error while a read call held the read guard
\* and a Write was inside the writer.
C10_Witness ==
    /\ last.op = "SetSize" /\ last.size = <<-1, 0>> /\ last.err = "nil"
    /\ rL # 0 /\ wL # 0

----------------------------------------------------------------------------
(* C11 *)

\* C11, as claimed: once a read call has returned an error, every later
\* read call returns the empty string and an error; no line is returned with
\* a nil error after a read has failed.
C11_ErrorIsTerminal ==
    \A i, j \in 1..Len(reads) :
        (i < j /\ reads[i].err # "nil")
            => (reads[j].line = <<>> /\ reads[j].err # "nil")

----------------------------------------------------------------------------
(* C12 *)

\* C12: a guard is held only by a thread that is inside the call that took
\* it: the read guard is free unless its holder is between taking it and
\* returning from ReadLine, the write guard is free unless its holder is
\* between taking it and returning from Write, whatever earlier calls
\* returned.
C12_GuardsReleased ==
    /\ rL # 0 => (rL \in Threads /\ pc[rL] \in {"scan", "read", "rl_ret"})
    /\ wL # 0 => (wL \in Threads /\ pc[wL] \in {"w_sink", "w_ret"})

\* After a read call that failed and a Write that failed, both guards are
\* free and no call is in progress.
C12_Witness ==
    /\ Len(reads) >= 1 /\ reads[1].err # "nil"
    /\ Len(writes) >= 1 /\ writes[1].err = "ErrW"
    /\ \A t \in Threads : pc[t] = "idle"
    /\ rL = 0 /\ wL = 0

----------------------------------------------------------------------------
(* C13 *)

\* C13: under fair scheduling, with a stream that ends or reports an error,
\* every thread that is inside a read call, waiting for the read guard or
\* holding it, eventually returns from that call.
C13_ReadsReturn ==
    \A t \in Threads :
        (term # "OPEN" /\ pc[t] \in {"rl_lock", "scan", "read", "rl_ret"})
            ~> (pc[t] = "idle")

\* The stream has reported its error, one call has returned it and released
\* the guard, and the other thread, which was waiting for the guard, now
\* holds it.
C13_Witness ==
    /\ term = "ErrIO" /\ closed
    /\ Len(reads) = 1 /\ reads[1].err = "ErrIO"
    /\ pc[1] = "idle"
    /\ pc[2] = "scan" /\ rL = 2

----------------------------------------------------------------------------
(* C14 *)

\* The last line of s.
FinalLine(s) == SplitLines(s)[Len(SplitLines(s))]

\* The call that meets the final line returned it, without its trailing CR
\* bytes and with a nil error, the call after it returned ("", io.EOF), and
\* no call up to the one that meets the final line returned io.EOF.
FinalLineThenEOF ==
    LET n == Len(SplitLines(input))
    IN  /\ Len(reads) >= n =>
            /\ reads[n].line = Stripped(FinalLine(input))
            /\ reads[n].err = "nil"
        /\ Len(reads) >= n + 1 =>
            /\ reads[n + 1].line = <<>>
            /\ reads[n + 1].err = "EOF"
        /\ \A i \in 1..Min(Len(reads), n) : reads[i].err # "EOF"

\* C14, as claimed: on a stream that ends cleanly after a non-empty final
\* line without a newline, the call that meets that line returns it, right-
\* trimmed, with a nil error, and io.EOF comes only from the call after it.
\* (Stated for readers that do not stall, the favourable case.)
C14_FinalLineReturned ==
    (term = "EOF" /\ input # <<>> /\ ~NewlineTerminated(input)
        /\ ~ReaderStalled) => FinalLineThenEOF

\* C14, amended: the same, for inputs whose lines, the final one included,
\* are each shorter than the scanner's largest buffer.
C14_FittingFinalLineReturned ==
    (term = "EOF" /\ input # <<>> /\ ~NewlineTerminated(input)
        /\ LinesFit(input) /\ ~ReaderStalled) => FinalLineThenEOF

\* The input "a\na\r" ended without a newline: the second call returned the
\* final line "a" with a nil error and the third ("", io.EOF).
C14_Witness ==
    /\ input = <<"a", LF, "a", CR>> /\ term = "EOF"
    /\ Len(reads) = 3
    /\ reads[2].line = <<"a">> /\ reads[2].err = "nil"
    /\ reads[3].line = <<>> /\ reads[3].err = "EOF"

----------------------------------------------------------------------------
(* C15 *)

\* The number of newline-terminated lines of s.
CompleteLines(s) ==
    IF NewlineTerminated(s) THEN Len(SplitLines(s))
    ELSE Len(SplitLines(s)) - 1

\* C15: once the reader has handed over all its data and reported its error
\* (not io.EOF), the first calls, as many as the data has complete lines,
\* have returned or will return those lines in order with a nil error, and a
\* call that returns the reader's error comes after all of them.
C15_LinesBeforeError ==
    (term = "ErrIO" /\ closed) =>
        \A i \in 1..Len(reads) :
            /\ i <= CompleteLines(input) =>
                /\ reads[i].line = Stripped(SplitLines(input)[i])
                /\ reads[i].err = "nil"
            /\ reads[i].err = "ErrIO" => i > CompleteLines(input)

\* The reader delivered "a\n\n" and its error before the first call looked
\* at the data: two calls returned "a" and "", the third the error.
C15_Witness ==
    /\ input = <<"a", LF, LF>> /\ term = "ErrIO"
    /\ Len(reads) = 3
    /\ reads[1].line = <<"a">> /\ reads[1].err = "nil" /\ reads[1].had = 3
    /\ reads[2].line = <<>> /\ reads[2].err = "nil" /\ reads[2].serr = "ErrIO"
    /\ reads[3].line = <<>> /\ reads[3].err = "ErrIO"

----------------------------------------------------------------------------
(* C16 *)

\* The bytes line k of s takes in the scanner's buffer: the line and, when it
\* has one, its newline.
LineBytes(s, k) ==
    Len(SplitLines(s)[k])
        + (IF k < Len(SplitLines(s)) \/ NewlineTerminated(s) THEN 1 ELSE 0)

\* Line k of s is longer than the scanner's largest buffer and no line
\* before it is.
FirstOverlong(s, k) ==
    /\ k \in 1..Len(SplitLines(s))
    /\ LineBytes(s, k) > MaxScanTokenSize
    /\ \A i \in 1..(k - 1) : LineBytes(s, i) <= MaxScanTokenSize

----------------------------------------------------------------------------
(* C17 *)

\* C17: a caller that is not inside another call can complete each of
\* SetBracketedPasteMode, SetPrompt and SetSize at once, whoever holds the
\* read guard and the write guard.
C17_NoOpsNeverBlock ==
    \A t \in Callers :
        ((t \in Threads => pc[t] = "idle") /\ budget > 0) =>
            /\ \A on \in BOOLEAN : ENABLED SetBracketedPasteMode(t, on)
            /\ \A p \in Prompts : ENABLED SetPrompt(t, p)
            /\ \A sz \in Sizes : ENABLED SetSize(t, sz[1], sz[2])

\* SetBracketedPasteMode has completed while thread 1 holds the read guard,
\* waiting on a silent stream, and thread 2 holds the write guard, inside a
\* writer that has not returned.
C17_Witness ==
    /\ last.op = "SetBracketedPasteMode"
    /\ pc[1] = "read" /\ rL = 1 /\ term = "OPEN" /\ pos = Len(input)
    /\ pc[2] = "w_sink" /\ wL = 2

====
